---- MODULE Spec2Model ----
(***************************************************************************)
(* The completion-based I/O driver of compio: the poll driver             *)
(* (src/src/driver/mod.rs), its io_uring backend                           *)
(* (src/compio-driver/src/iour/mod.rs) and the kernel ring the backend     *)
(* talks to.  One caller thread owns the driver; the kernel completes      *)
(* in-flight operations concurrently.                                      *)
(***************************************************************************)
EXTENDS Integers, Sequences, FiniteSets, TLC

(* ------------------------------ bounds -------------------------------- *)

\* `entries` of PollDriver::with_entries: the kernel submission ring's slots.
RingEntries == 2
\* Calls of PollDriver::push in a run.
MaxPush == 2
\* Calls of PollDriver::cancel in a run.
MaxCancel == 2

\* Kernel completion values create_entry is tried on: -MaxErrno .. MaxResult.
MaxErrno == 126
MaxResult == 3

(* ------------------------- program constants -------------------------- *)

\* Driver::CANCEL is u64::MAX, the largest identifier; TLC's integers are
\* 32 bits wide, so the identifier type is modelled at that width.
CANCEL == 2147483647
ECANCELED == 125
ETIMEDOUT == 110
ETIME == 62
EBUSY == 16
EAGAIN == 11
\* errno values the kernel answers an async-cancel with, and a submission
\* fault that is none of ETIME, EBUSY, EAGAIN.
ENOENT == 2
EALREADY == 114
EINTR == 4

\* What an opcode is: one that completes on its own, or a long timer that
\* does not complete during the run unless it is cancelled.
Kinds == {"io", "timer"}
\* Kernel return values of an "io" operation: 3 bytes moved, or -EIO.
IoResults == {3, -5}
\* Option<Duration>: None and Some(0).  Time is not modelled: a wait with a
\* timeout ends with a completion or with ETIME whatever the duration is,
\* so a longer duration adds no behaviour.
None == [some |-> FALSE, d |-> 0]
Some(d) == [some |-> TRUE, d |-> d]
Timeouts == {None, Some(0)}
\* Identifiers a caller may pass to cancel.
CancelIds == {0, 1}

VARIABLES
    ops,          \* PollDriver.ops: Slab<RawOp>
    squeue,       \* PollDriver.squeue
    d_squeue,     \* Driver.squeue (the backend's staging queue)
    cancel_queue, \* Driver.cancel_queue
    sq,           \* Driver.inner: the kernel submission ring
    inflight,     \* operations the kernel holds
    cq,           \* Driver.inner: the kernel completion ring
    sink,         \* the caller's `entries` collection
    pc,           \* where the caller is: "idle", or inside poll
    timeout,      \* poll's argument, while poll runs
    ended,        \* poll's local `ended`
    appended,     \* entries this poll call has appended to the sink
    quiet,        \* this poll call found nothing queued, ringed or completed
    out,          \* what the caller's last call returned (none inside poll)
    pushes,       \* calls of push so far
    cancels,      \* calls of cancel so far
    hist          \* history: per identifier, the user submissions pushed to
                  \* the kernel ring (sub), the entries appended to the sink
                  \* (ent), and how cancel was last called for it (mark)

\* The buffer and io libraries, which the driver does not touch.
VARIABLES
    buf,          \* the buffer a buffer or io call is handed
    bufs,         \* the sub-buffers of a vectored buffer
    writer,       \* the Vec<u8> that AsyncWrite writes into
    stream,       \* a connected stream pair
    ret           \* what the last buffer or io call returned

libvars == <<buf, bufs, writer, stream, ret>>

vars == <<ops, squeue, d_squeue, cancel_queue, sq, inflight, cq, sink, pc,
          timeout, ended, appended, quiet, out, pushes, cancels, hist,
          buf, bufs, writer, stream, ret>>

\* No buffer or io call has been made.
NoRet == [call |-> "none"]
NoBuf == [kind |-> "none", mem |-> <<>>, len |-> 0]
NoStream == [data |-> <<>>, closed |-> FALSE]
LibIdle ==
    /\ buf = NoBuf
    /\ bufs = <<>>
    /\ writer = <<>>
    /\ stream = NoStream
    /\ ret = NoRet

(* ------------------------------- Slab --------------------------------- *)

NoOp == [addr |-> 0, kind |-> "none"]
\* RawOp::new: a boxed opcode; addr is the address Box::into_raw returned.
RawOp_new(addr, kind) == [addr |-> addr, kind |-> kind]

Occupied(v) == [occ |-> TRUE, val |-> v, nxt |-> 0]
Vacant(n) == [occ |-> FALSE, val |-> NoOp, nxt |-> n]

\* Slab::with_capacity: no entries, next key 0.
Slab_new == [entries |-> <<>>, next |-> 0]

\* Slab::contains(key) (keys count from 0, sequences from 1).
Slab_contains(s, key) ==
    key >= 0 /\ key < Len(s.entries) /\ s.entries[key + 1].occ

\* vacant_key answering the first key whatever the free list holds.
Slab_vacant_key_zero(s) == 0

\* Slab::vacant_key: the key the next insert returns.
Slab_vacant_key(s) == s.next

\* insert that, when the registry grows, moves the opcodes already in it to
\* new addresses along with their handles.
Slab_insert_realloc(s, v) ==
    IF s.next = Len(s.entries)
    THEN [entries |->
            Append([i \in 1 .. Len(s.entries) |->
                      IF s.entries[i].occ
                      THEN Occupied([s.entries[i].val EXCEPT !.addr = @ + 10])
                      ELSE s.entries[i]],
                   Occupied(v)),
          next |-> s.next + 1]
    ELSE [entries |-> [s.entries EXCEPT ![s.next + 1] = Occupied(v)],
          next |-> s.entries[s.next + 1].nxt]

\* Slab::insert: take the head of the free list, or grow.
Slab_insert(s, v) ==
    IF s.next = Len(s.entries)
    THEN [entries |-> Append(s.entries, Occupied(v)), next |-> s.next + 1]
    ELSE [entries |-> [s.entries EXCEPT ![s.next + 1] = Occupied(v)],
          next |-> s.entries[s.next + 1].nxt]

\* try_remove replaced by a lookup: the slot stays occupied.
Slab_remove_keep(s, key) == s

\* Slab::try_remove on an occupied key: the slot joins the free list.
Slab_remove(s, key) ==
    [entries |-> [s.entries EXCEPT ![key + 1] = Vacant(s.next)], next |-> key]

Slab_get(s, key) == s.entries[key + 1].val

Registered == {k \in 0 .. (Len(ops.entries) - 1) : ops.entries[k + 1].occ}

(* ------------------------- io_uring backend --------------------------- *)

\* OpCode::create_entry(...).user_data(user_data): the submission entry of
\* a registered opcode; it points at the opcode (addr).
OpEntry(user_data, op) ==
    [user_data |-> user_data, target |-> 0, addr |-> op.addr, kind |-> op.kind]

\* The async-cancel tagged with its target's identifier, not with CANCEL.
CancelEntry_untagged(user_data) ==
    [user_data |-> user_data, target |-> user_data, addr |-> 0,
     kind |-> "cancel"]

\* AsyncCancel::new(user_data).build().user_data(Self::CANCEL)
CancelEntry(user_data) ==
    [user_data |-> CANCEL, target |-> user_data, addr |-> 0, kind |-> "cancel"]

\* is_full answering only once the ring holds more entries than it has
\* room for.
is_full_late(ring) == Len(ring) > RingEntries

\* inner_squeue.is_full()
is_full(ring) == Len(ring) >= RingEntries

\* The first loop taking identifiers with pop_back where the code takes them
\* with pop_front.
RECURSIVE flush_ops_lifo(_, _, _)
flush_ops_lifo(ring, q, registry) ==
    IF is_full(ring)
    THEN [ring |-> ring, q |-> q, ended |-> FALSE, panic |-> FALSE]
    ELSE IF q = <<>>
    THEN [ring |-> ring, q |-> q, ended |-> TRUE, panic |-> FALSE]
    ELSE flush_ops_lifo(
             Append(ring, OpEntry(q[Len(q)], Slab_get(registry, q[Len(q)]))),
             SubSeq(q, 1, Len(q) - 1), registry)

\* The first loop of flush_submissions: user submissions, while the ring
\* has room.  ended is ended_ops; panic is the failed registry index.
RECURSIVE flush_ops(_, _, _)
flush_ops(ring, q, registry) ==
    IF is_full(ring)
    THEN [ring |-> ring, q |-> q, ended |-> FALSE, panic |-> FALSE]
    ELSE IF q = <<>>
    THEN [ring |-> ring, q |-> q, ended |-> TRUE, panic |-> FALSE]
    ELSE IF ~Slab_contains(registry, Head(q))
    THEN [ring |-> ring, q |-> Tail(q), ended |-> FALSE, panic |-> TRUE]
    ELSE flush_ops(Append(ring, OpEntry(Head(q), Slab_get(registry, Head(q)))),
                   Tail(q), registry)

\* The second loop taking the cancels off the queue without building their
\* submissions.
flush_cancels_discard(ring, q) ==
    [ring |-> ring, q |-> <<>>, ended |-> ~is_full(ring)]

\* The second loop: async-cancel submissions, while the ring has room.
RECURSIVE flush_cancels(_, _)
flush_cancels(ring, q) ==
    IF is_full(ring)
    THEN [ring |-> ring, q |-> q, ended |-> FALSE]
    ELSE IF q = <<>>
    THEN [ring |-> ring, q |-> q, ended |-> TRUE]
    ELSE flush_cancels(Append(ring, CancelEntry(Head(q))), Tail(q))

\* flush_submissions taking the next identifier before it looks at the
\* ring: the one a loop takes when the ring is full is dropped.
flush_submissions_lossy(ring, opq, cancelq, registry) ==
    LET a == flush_ops(ring, opq, registry)
        b == flush_cancels(a.ring, cancelq)
    IN [ring |-> b.ring,
        squeue |-> IF is_full(a.ring) /\ a.q # <<>> THEN Tail(a.q) ELSE a.q,
        cancel_queue |-> IF is_full(b.ring) /\ b.q # <<>>
                         THEN Tail(b.q) ELSE b.q,
        ended |-> a.ended /\ b.ended, panic |-> a.panic]

\* flush_submissions reporting the end once either queue has run out.
flush_submissions_either(ring, opq, cancelq, registry) ==
    LET a == flush_ops(ring, opq, registry)
        b == IF a.panic
             THEN [ring |-> a.ring, q |-> cancelq, ended |-> FALSE]
             ELSE flush_cancels(a.ring, cancelq)
    IN [ring |-> b.ring, squeue |-> a.q, cancel_queue |-> b.q,
        ended |-> a.ended \/ b.ended, panic |-> a.panic]

\* flush_submissions with its two loops in the other order.
flush_submissions_cancels_first(ring, opq, cancelq, registry) ==
    LET b == flush_cancels(ring, cancelq)
        a == flush_ops(b.ring, opq, registry)
    IN [ring |-> a.ring, squeue |-> a.q, cancel_queue |-> b.q,
        ended |-> a.ended /\ b.ended, panic |-> a.panic]

\* Driver::flush_submissions: both loops, then ended_ops && ended_cancel.
flush_submissions(ring, opq, cancelq, registry) ==
    LET a == flush_ops(ring, opq, registry)
        b == IF a.panic
             THEN [ring |-> a.ring, q |-> cancelq, ended |-> FALSE]
             ELSE flush_cancels(a.ring, cancelq)
    IN [ring |-> b.ring, squeue |-> a.q, cancel_queue |-> b.q,
        ended |-> a.ended /\ b.ended, panic |-> a.panic]

\* io::Result<usize>
Ok(v) == [ok |-> TRUE, val |-> v]
Err(e) == [ok |-> FALSE, val |-> e]

\* create_entry without its ECANCELED arm: every errno passes through.
create_entry_raw(cqe) ==
    [user_data |-> cqe.user_data,
     result |-> IF cqe.res < 0 THEN Err(-cqe.res) ELSE Ok(cqe.res)]

\* create_entry testing result <= 0 where the code tests result < 0.
create_entry_nonneg(cqe) ==
    [user_data |-> cqe.user_data,
     result |-> IF cqe.res <= 0
                THEN Err(IF cqe.res = -ECANCELED THEN ETIMEDOUT ELSE -cqe.res)
                ELSE Ok(cqe.res)]

\* create_entry: a kernel completion as an Entry.
create_entry(cqe) ==
    [user_data |-> cqe.user_data,
     result |-> IF cqe.res < 0
                THEN Err(IF cqe.res = -ECANCELED THEN ETIMEDOUT ELSE -cqe.res)
                ELSE Ok(cqe.res)]

\* poll_entries with map_while in place of filter_map: it stops at the
\* first CANCEL completion.
RECURSIVE poll_entries_map_while(_)
poll_entries_map_while(ring) ==
    IF ring = <<>> THEN <<>>
    ELSE IF Head(ring).user_data = CANCEL THEN <<>>
    ELSE <<create_entry(Head(ring))>> \o poll_entries_map_while(Tail(ring))

\* poll_entries with map in place of filter_map: every completion becomes
\* an Entry.
poll_entries_all(ring) == [i \in 1 .. Len(ring) |-> create_entry(ring[i])]

\* Driver::poll_entries: the completion ring without the CANCEL
\* completions, each as an Entry.
RECURSIVE poll_entries(_)
poll_entries(ring) ==
    IF ring = <<>> THEN <<>>
    ELSE IF Head(ring).user_data = CANCEL THEN poll_entries(Tail(ring))
    ELSE <<create_entry(Head(ring))>> \o poll_entries(Tail(ring))

\* submit_auto taking the end of a timed wait for success.
submit_auto_result_etime_ok(errno) ==
    IF errno = 0 \/ errno = ETIME THEN Ok(0)
    ELSE IF errno = EBUSY \/ errno = EAGAIN THEN Ok(0)
    ELSE Err(errno)

\* The error half of submit_auto: what poll's caller sees for a kernel
\* errno.  "ok" is Ok(()).
submit_auto_result(errno) ==
    IF errno = 0 THEN Ok(0)
    ELSE IF errno = ETIME THEN Err(ETIMEDOUT)
    ELSE IF errno = EBUSY \/ errno = EAGAIN THEN Ok(0)
    ELSE Err(errno)

(* ------------------------------ kernel -------------------------------- *)

Cqe(user_data, res) == [user_data |-> user_data, res |-> res]

\* io_uring_enter consuming the submission ring in order.  An operation
\* entry goes in flight.  An async-cancel finds its target in flight or
\* not (ENOENT); a timer it finds is cancelled; another operation is
\* cancelled when eff, and otherwise runs on (EALREADY).
RECURSIVE kernel_submit(_, _, _, _)
kernel_submit(ring, fl, comp, eff) ==
    IF ring = <<>> THEN [inflight |-> fl, cq |-> comp]
    ELSE LET e == Head(ring) IN
         IF e.kind # "cancel"
         THEN kernel_submit(Tail(ring), fl \cup {e}, comp, eff)
         ELSE LET hit == {f \in fl : f.user_data = e.target} IN
              IF hit = {}
              THEN kernel_submit(Tail(ring), fl,
                                 Append(comp, Cqe(e.user_data, -ENOENT)), eff)
              ELSE LET f == CHOOSE x \in hit : TRUE IN
                   IF f.kind = "timer" \/ eff
                   THEN kernel_submit(Tail(ring), fl \ {f},
                            comp \o <<Cqe(f.user_data, -ECANCELED),
                                      Cqe(e.user_data, 0)>>, eff)
                   ELSE kernel_submit(Tail(ring), fl,
                            Append(comp, Cqe(e.user_data, -EALREADY)), eff)

(* ------------------------------- Init --------------------------------- *)

\* io::Result<()> of poll, and the unit value.
Unit == 0

\* What a call gave back: push its identifier (and the opcode registered),
\* poll its result with what the call was and did, pop the owned operation
\* and the entry's result.
Out(call, user_data, op, result, n, t, q) ==
    [call |-> call, user_data |-> user_data, op |-> op, result |-> result,
     appended |-> n, timeout |-> t, quiet |-> q]

NoOut == Out("none", -1, NoOp, Ok(Unit), 0, None, FALSE)

\* The identifiers the registry can hand out, and those of the history.
Ids == 0 .. (MaxPush - 1)
HistIds == Ids \cup CancelIds

\* How many elements of seq bear user_data id.
CountOf(seq, id) == Cardinality({i \in 1 .. Len(seq) : seq[i].user_data = id})

\* mark: "no" (no cancel call), "early" (cancel was called while the
\* identifier was not registered), "pre" (the identifier was then returned
\* by push), "post" (cancel was called after the push that returned it).
HistCancel(h, id, registered) ==
    [h EXCEPT !.mark[id] = IF ~registered THEN "early"
                           ELSE IF @ = "pre" THEN "pre" ELSE "post"]
HistPush(h, id) ==
    [h EXCEPT !.mark[id] = IF @ = "early" THEN "pre" ELSE "no"]
HistPop(h, id) == [h EXCEPT !.mark[id] = "no"]
HistFlush(h, pushed) ==
    [h EXCEPT !.sub = [id \in HistIds |->
        @[id] + Cardinality({i \in 1 .. Len(pushed) :
                    pushed[i].kind # "cancel" /\ pushed[i].user_data = id})]]
HistEntries(h, new) ==
    [h EXCEPT !.ent = [id \in HistIds |-> @[id] + CountOf(new, id)]]

Init ==
    /\ ops = Slab_new
    /\ squeue = <<>>
    /\ d_squeue = <<>>
    /\ cancel_queue = <<>>
    /\ sq = <<>>
    /\ inflight = {}
    /\ cq = <<>>
    /\ sink = <<>>
    /\ pc = "idle"
    /\ timeout = None
    /\ ended = FALSE
    /\ appended = 0
    /\ quiet = FALSE
    /\ out = NoOut
    /\ pushes = 0
    /\ cancels = 0
    /\ hist = [sub |-> [id \in HistIds |-> 0], ent |-> [id \in HistIds |-> 0],
               mark |-> [id \in HistIds |-> "no"]]
    /\ LibIdle

(* ------------------------------ actions ------------------------------- *)

\* push queueing the next vacant identifier without inserting the opcode
\* into the registry.
Push_unregistered(kind) ==
    /\ pc = "idle"
    /\ pushes < MaxPush
    /\ LET user_data == Slab_vacant_key(ops)
           op == RawOp_new(pushes + 1, kind)
       IN /\ ops' = ops
          /\ squeue' = Append(squeue, user_data)
          /\ out' = Out("push", user_data, op, Ok(Unit), 0, None, FALSE)
          /\ hist' = HistPush(hist, user_data)
    /\ pushes' = pushes + 1
    /\ UNCHANGED <<d_squeue, cancel_queue, sq, inflight, cq, sink, pc, timeout,
                   ended, appended, quiet, cancels>>
    /\ UNCHANGED libvars

\* PollDriver::push: register the opcode, queue its identifier, return it.
Push(kind) ==
    /\ pc = "idle"
    /\ pushes < MaxPush
    /\ LET user_data == Slab_vacant_key(ops)
           op == RawOp_new(pushes + 1, kind)
       IN /\ ops' = Slab_insert(ops, op)
          /\ squeue' = Append(squeue, user_data)
          /\ out' = Out("push", user_data, op, Ok(Unit), 0, None, FALSE)
          /\ hist' = HistPush(hist, user_data)
    /\ pushes' = pushes + 1
    /\ UNCHANGED <<d_squeue, cancel_queue, sq, inflight, cq, sink, pc, timeout,
                   ended, appended, quiet, cancels>>
    /\ UNCHANGED libvars

\* cancel dropping the opcode it is asked to cancel.
Driver_cancel_release(q, user_data, registry) ==
    [cancel_queue |-> Append(q, user_data),
     registry |-> IF Slab_contains(registry, user_data)
                  THEN Slab_remove(registry, user_data) ELSE registry]

\* Driver::cancel: queue an async-cancel for user_data; the registry it is
\* handed is left alone.
Driver_cancel(q, user_data, registry) ==
    [cancel_queue |-> Append(q, user_data), registry |-> registry]

\* PollDriver::cancel
Cancel(user_data) ==
    /\ pc = "idle"
    /\ cancels < MaxCancel
    /\ LET r == Driver_cancel(cancel_queue, user_data, ops) IN
       /\ cancel_queue' = r.cancel_queue
       /\ ops' = r.registry
    /\ cancels' = cancels + 1
    /\ out' = Out("cancel", user_data, NoOp, Ok(Unit), 0, None, FALSE)
    /\ hist' = HistCancel(hist, user_data, Slab_contains(ops, user_data))
    /\ UNCHANGED <<squeue, d_squeue, sq, inflight, cq, sink, pc, timeout,
                   ended, appended, quiet, pushes>>
    /\ UNCHANGED libvars

\* Driver::push for every Operation the iterator of PollDriver::poll
\* yields: the driver's queue moves, in order, to the backend's.
drain_ops(from, to) == to \o from

\* PollDriver::poll entered; Driver::poll is about to loop.
PollBegin(t) ==
    /\ pc = "idle"
    /\ timeout' = t
    /\ d_squeue' = drain_ops(squeue, d_squeue)
    /\ squeue' = <<>>
    /\ appended' = 0
    /\ ended' = FALSE
    /\ quiet' = (squeue = <<>> /\ d_squeue = <<>> /\ cancel_queue = <<>>
                 /\ sq = <<>> /\ cq = <<>>)
    /\ pc' = "flush"
    /\ out' = NoOut
    /\ UNCHANGED <<ops, cancel_queue, sq, inflight, cq, sink, pushes, cancels,
                   hist>>
    /\ UNCHANGED libvars

\* Driver::poll: let ended = self.flush_submissions(registry)
Flush ==
    /\ pc = "flush"
    /\ LET r == flush_submissions(sq, d_squeue, cancel_queue, ops) IN
       /\ sq' = r.ring
       /\ d_squeue' = r.squeue
       /\ cancel_queue' = r.cancel_queue
       /\ ended' = r.ended
       /\ pc' = IF r.panic THEN "panic" ELSE "submit"
       /\ hist' = HistFlush(hist, SubSeq(r.ring, Len(sq) + 1, Len(r.ring)))
    /\ UNCHANGED <<ops, squeue, inflight, cq, sink, timeout, appended, quiet,
                   out, pushes, cancels>>
    /\ UNCHANGED libvars

\* poll returning res to the caller.
Return(res, n) ==
    /\ pc' = "idle"
    /\ out' = Out("poll", -1, NoOp, res, n, timeout, quiet)
    /\ timeout' = None
    /\ ended' = FALSE
    /\ appended' = 0
    /\ quiet' = FALSE

\* Driver::poll reading the completion ring without consuming it.
AfterSubmit_keep(res) ==
    IF ~res.ok
    THEN /\ Return(res, appended)
         /\ UNCHANGED <<cq, sink, hist>>
    ELSE /\ sink' = sink \o poll_entries(cq)
         /\ hist' = HistEntries(hist, poll_entries(cq))
         /\ cq' = cq
         /\ IF ended
            THEN Return(Ok(Unit), appended + Len(poll_entries(cq)))
            ELSE /\ pc' = "flush"
                 /\ appended' = appended + Len(poll_entries(cq))
                 /\ UNCHANGED <<timeout, ended, quiet, out>>

\* Driver::poll failing with the first error found among the completions
\* it read.
AfterSubmit_fail_on_error(res) ==
    LET new == poll_entries(cq)
        bad == SelectSeq(new, LAMBDA e : ~e.result.ok)
    IN IF ~res.ok
       THEN /\ Return(res, appended)
            /\ UNCHANGED <<cq, sink, hist>>
       ELSE /\ sink' = sink \o new
            /\ hist' = HistEntries(hist, new)
            /\ cq' = <<>>
            /\ IF bad # <<>>
               THEN Return(bad[1].result, appended + Len(new))
               ELSE IF ended
               THEN Return(Ok(Unit), appended + Len(new))
               ELSE /\ pc' = "flush"
                    /\ appended' = appended + Len(new)
                    /\ UNCHANGED <<timeout, ended, quiet, out>>

\* Driver::poll reading the completion ring before it passes an error on.
AfterSubmit_harvest(res) ==
    IF ~res.ok
    THEN /\ sink' = sink \o poll_entries(cq)
         /\ hist' = HistEntries(hist, poll_entries(cq))
         /\ cq' = <<>>
         /\ Return(res, appended + Len(poll_entries(cq)))
    ELSE /\ sink' = sink \o poll_entries(cq)
         /\ hist' = HistEntries(hist, poll_entries(cq))
         /\ cq' = <<>>
         /\ IF ended
            THEN Return(Ok(Unit), appended + Len(poll_entries(cq)))
            ELSE /\ pc' = "flush"
                 /\ appended' = appended + Len(poll_entries(cq))
                 /\ UNCHANGED <<timeout, ended, quiet, out>>

\* Driver::poll after submit_auto returned res: the `?`, poll_entries, and
\* the loop's exit.
AfterSubmit(res) ==
    IF ~res.ok
    THEN /\ Return(res, appended)
         /\ UNCHANGED <<cq, sink, hist>>
    ELSE /\ sink' = sink \o poll_entries(cq)
         /\ hist' = HistEntries(hist, poll_entries(cq))
         /\ cq' = <<>>
         /\ IF ended
            THEN Return(Ok(Unit), appended + Len(poll_entries(cq)))
            ELSE /\ pc' = "flush"
                 /\ appended' = appended + Len(poll_entries(cq))
                 /\ UNCHANGED <<timeout, ended, quiet, out>>

\* submit_auto entering the kernel: the ring is consumed and the kernel
\* starts what it holds.
SubmitEnter(eff) ==
    /\ pc = "submit"
    /\ LET k == kernel_submit(sq, inflight, cq, eff) IN
       /\ inflight' = k.inflight
       /\ cq' = k.cq
    /\ sq' = <<>>
    /\ pc' = "wait"
    /\ UNCHANGED <<ops, squeue, d_squeue, cancel_queue, sink, timeout, ended,
                   appended, quiet, out, pushes, cancels, hist>>
    /\ UNCHANGED libvars

\* submit_auto failing in the kernel with errno: nothing is consumed.
SubmitFault(errno) ==
    /\ pc = "submit"
    /\ AfterSubmit(submit_auto_result(errno))
    /\ UNCHANGED <<ops, squeue, d_squeue, cancel_queue, sq, inflight, pushes,
                   cancels>>
    /\ UNCHANGED libvars

\* submit_auto returning Ok: at once when it does not wait (submit()), and
\* once a completion is there when it waits.
SubmitOk ==
    /\ pc = "wait"
    /\ ~ended \/ cq # <<>>
    /\ AfterSubmit(submit_auto_result(0))
    /\ UNCHANGED <<ops, squeue, d_squeue, cancel_queue, sq, inflight, pushes,
                   cancels>>
    /\ UNCHANGED libvars

\* submit_with_args(1, timespec) running out of time: ETIME.
SubmitTimeout ==
    /\ pc = "wait"
    /\ ended
    /\ timeout.some
    /\ cq = <<>>
    /\ AfterSubmit(submit_auto_result(ETIME))
    /\ UNCHANGED <<ops, squeue, d_squeue, cancel_queue, sq, inflight, pushes,
                   cancels>>
    /\ UNCHANGED libvars

\* The kernel completing an operation it holds.
KernelComplete(f, res) ==
    /\ f \in inflight
    /\ f.kind = "io"
    /\ inflight' = inflight \ {f}
    /\ cq' = Append(cq, Cqe(f.user_data, res))
    /\ UNCHANGED <<ops, squeue, d_squeue, cancel_queue, sq, sink, pc, timeout,
                   ended, appended, quiet, out, pushes, cancels, hist>>
    /\ UNCHANGED libvars

\* PollDriver::pop, one entry of the caller's iterator.
Pop ==
    /\ pc = "idle"
    /\ sink # <<>>
    /\ LET entry == Head(sink) IN
       IF Slab_contains(ops, entry.user_data)
       THEN /\ ops' = Slab_remove(ops, entry.user_data)
            /\ out' = Out("pop", entry.user_data,
                          Slab_get(ops, entry.user_data), entry.result,
                          0, None, FALSE)
            /\ sink' = Tail(sink)
            /\ hist' = HistPop(hist, entry.user_data)
            /\ pc' = pc
       ELSE /\ pc' = "panic"
            /\ UNCHANGED <<ops, out, sink, hist>>
    /\ UNCHANGED <<squeue, d_squeue, cancel_queue, sq, inflight, cq, timeout,
                   ended, appended, quiet, pushes, cancels>>
    /\ UNCHANGED libvars

Next ==
    \/ \E kind \in Kinds : Push(kind)
    \/ \E id \in CancelIds : Cancel(id)
    \/ \E t \in Timeouts : PollBegin(t)
    \/ Flush
    \/ \E eff \in BOOLEAN : SubmitEnter(eff)
    \/ \E errno \in {EBUSY, EAGAIN, EINTR} : SubmitFault(errno)
    \/ SubmitOk
    \/ SubmitTimeout
    \/ \E f \in inflight, res \in IoResults : KernelComplete(f, res)
    \/ Pop

Spec == Init /\ [][Next]_vars

\* The driver on a kernel whose submit does not fail.
FairNext ==
    \/ \E kind \in Kinds : Push(kind)
    \/ \E id \in CancelIds : Cancel(id)
    \/ \E t \in Timeouts : PollBegin(t)
    \/ Flush
    \/ \E eff \in BOOLEAN : SubmitEnter(eff)
    \/ SubmitOk
    \/ SubmitTimeout
    \/ \E f \in inflight, res \in IoResults : KernelComplete(f, res)
    \/ Pop

\* The caller keeps calling poll, a poll that can take its next step takes
\* it, a timed wait runs out, and the kernel completes what completes on
\* its own.
Fairness ==
    /\ WF_vars(\E t \in Timeouts : PollBegin(t))
    /\ WF_vars(Flush)
    /\ WF_vars(\E eff \in BOOLEAN : SubmitEnter(eff))
    /\ WF_vars(SubmitOk)
    /\ WF_vars(SubmitTimeout)
    /\ WF_vars(\E f \in inflight, res \in IoResults : KernelComplete(f, res))

FairSpec == Init /\ [][FairNext]_vars /\ Fairness

\* The driver on a kernel whose submit may fail, but not for ever: a
\* caller that keeps polling gets a submit through.
FaultFairSpec ==
    Init /\ [][Next]_vars /\ Fairness
    /\ SF_vars(\E eff \in BOOLEAN : SubmitEnter(eff))

(* --------------------- create_entry on its own ------------------------ *)

\* The driver as constructed, with one completion of any value in the
\* completion ring.
EntryInit ==
    /\ ops = Slab_new
    /\ squeue = <<>>
    /\ d_squeue = <<>>
    /\ cancel_queue = <<>>
    /\ sq = <<>>
    /\ inflight = {}
    /\ cq \in {<<Cqe(user_data, res)>> :
                 user_data \in Ids, res \in (0 - MaxErrno) .. MaxResult}
    /\ sink = <<>>
    /\ pc = "idle"
    /\ timeout = None
    /\ ended = FALSE
    /\ appended = 0
    /\ quiet = FALSE
    /\ out = NoOut
    /\ pushes = 0
    /\ cancels = 0
    /\ hist = [sub |-> [id \in HistIds |-> 0], ent |-> [id \in HistIds |-> 0],
               mark |-> [id \in HistIds |-> "no"]]
    /\ LibIdle

\* Driver::poll_entries on that ring.
EntryDrain ==
    /\ cq # <<>>
    /\ sink' = sink \o poll_entries(cq)
    /\ cq' = <<>>
    /\ UNCHANGED <<ops, squeue, d_squeue, cancel_queue, sq, inflight, pc,
                   timeout, ended, appended, quiet, out, pushes, cancels, hist>>
    /\ UNCHANGED libvars

EntrySpec == EntryInit /\ [][EntryDrain]_vars

(* ------------------------------ buffers ------------------------------- *)

\* The largest capacity of a buffer.
MaxCap == 4

drvvars == <<ops, squeue, d_squeue, cancel_queue, sq, inflight, cq, sink, pc,
             timeout, ended, appended, quiet, out, pushes, cancels, hist>>

\* A driver nothing has been pushed to.
DriverIdle ==
    /\ ops = Slab_new
    /\ squeue = <<>>
    /\ d_squeue = <<>>
    /\ cancel_queue = <<>>
    /\ sq = <<>>
    /\ inflight = {}
    /\ cq = <<>>
    /\ sink = <<>>
    /\ pc = "idle"
    /\ timeout = None
    /\ ended = FALSE
    /\ appended = 0
    /\ quiet = FALSE
    /\ out = NoOut
    /\ pushes = 0
    /\ cancels = 0
    /\ hist = [sub |-> [id \in HistIds |-> 0], ent |-> [id \in HistIds |-> 0],
               mark |-> [id \in HistIds |-> "no"]]

\* A buffer: the memory it owns, and how much of it a Vec<u8> counts as its
\* length. kind is "vec" (Vec<u8>), "array" ([u8; N]) or "static"
\* (&'static [u8], &'static mut [u8]).
Buf(kind, mem, len) == [kind |-> kind, mem |-> mem, len |-> len]
\* Memory of c bytes, the byte at offset i - 1 holding i.
Mem(c) == [i \in 1 .. c |-> i]

\* IoBuf::buf_len: len() of a Vec<u8>; the whole of a slice or an array.
buf_len(b) == IF b.kind = "vec" THEN b.len ELSE Len(b.mem)
\* IoBuf::buf_capacity: capacity() of a Vec<u8>; len() of a slice, N of an
\* array.
buf_capacity(b) == Len(b.mem)
\* IoBuf::as_slice: the initialized part.
as_slice(b) == SubSeq(b.mem, 1, buf_len(b))

\* Vec::set_len
set_len(b, new_len) == [b EXCEPT !.len = new_len]

\* set_buf_init setting the length whatever it was.
set_buf_init_always(b, len) ==
    IF b.kind = "vec" THEN set_len(b, len) ELSE b

\* SetBufInit::set_buf_init: a Vec<u8> grows to len when it is shorter; a
\* slice and an array only assert len <= their length.
set_buf_init(b, len) ==
    IF b.kind = "vec"
    THEN IF buf_len(b) < len THEN set_len(b, len) ELSE b
    ELSE b

(* ----------------------- set_buf_init on its own ---------------------- *)

Max(a, b) == IF a >= b THEN a ELSE b
Min(a, b) == IF a <= b THEN a ELSE b

\* Every Vec<u8> and every array up to MaxCap bytes.
SetInitBufs ==
    {Buf("vec", Mem(c), l) : c \in 0 .. MaxCap, l \in 0 .. MaxCap}
    \cup {Buf("array", Mem(c), c) : c \in 0 .. MaxCap}

SetInitInit ==
    /\ DriverIdle
    /\ buf \in {b \in SetInitBufs : b.len <= buf_capacity(b)}
    /\ bufs = <<>>
    /\ writer = <<>>
    /\ stream = NoStream
    /\ ret = [call |-> "new", n |-> 0, before |-> buf, init |-> buf_len(buf),
              max |-> buf_len(buf)]

\* buf.set_buf_init(n), within the capacity as its contract asks.
SetBufInit(n) ==
    /\ n <= buf_capacity(buf)
    /\ buf' = set_buf_init(buf, n)
    /\ ret' = [call |-> "set_buf_init", n |-> n, before |-> buf,
               init |-> ret.init, max |-> Max(ret.max, n)]
    /\ UNCHANGED <<bufs, writer, stream>>
    /\ UNCHANGED drvvars

SetInitNext == \E n \in 0 .. MaxCap : SetBufInit(n)

SetInitSpec == SetInitInit /\ [][SetInitNext]_vars

(* ------------------- set_buf_init of a vectored buffer ---------------- *)

\* The most sub-buffers of a vectored buffer, and the largest capacity of
\* one of them.
MaxBufs == 3
MaxSubCap == 2

\* default_set_buf_init handing every sub-buffer the whole of len.
RECURSIVE default_set_buf_init_whole(_, _)
default_set_buf_init_whole(iter, len) ==
    IF iter = <<>> THEN <<>>
    ELSE LET b == Head(iter)
             capacity == buf_capacity(b)
         IN IF len >= capacity
            THEN <<[buf |-> set_buf_init(b, capacity), len |-> capacity]>>
                 \o default_set_buf_init_whole(Tail(iter), len)
            ELSE <<[buf |-> set_buf_init(b, len), len |-> len]>>
                 \o default_set_buf_init_whole(Tail(iter), 0)

\* default_set_buf_init: for each sub-buffer in order, the sub-buffer after
\* its set_buf_init call and the len that call was given.
RECURSIVE default_set_buf_init(_, _)
default_set_buf_init(iter, len) ==
    IF iter = <<>> THEN <<>>
    ELSE LET b == Head(iter)
             capacity == buf_capacity(b)
         IN IF len >= capacity
            THEN <<[buf |-> set_buf_init(b, capacity), len |-> capacity]>>
                 \o default_set_buf_init(Tail(iter), len - capacity)
            ELSE <<[buf |-> set_buf_init(b, len), len |-> len]>>
                 \o default_set_buf_init(Tail(iter), 0)

RECURSIVE SumLen(_)
SumLen(q) == IF q = <<>> THEN 0 ELSE buf_len(Head(q)) + SumLen(Tail(q))
RECURSIVE SumCap(_)
SumCap(q) == IF q = <<>> THEN 0 ELSE buf_capacity(Head(q)) + SumCap(Tail(q))

\* Every Vec<u8> up to MaxSubCap bytes, at every length.
SubBufs ==
    {Buf("vec", Mem(c), l) : c \in 0 .. MaxSubCap, l \in 0 .. MaxSubCap}
SubBufSeqs ==
    UNION {[1 .. k -> {b \in SubBufs : b.len <= buf_capacity(b)}] :
             k \in 1 .. MaxBufs}

VectoredInit ==
    /\ DriverIdle
    /\ buf = NoBuf
    /\ bufs \in SubBufSeqs
    /\ writer = <<>>
    /\ stream = NoStream
    /\ ret = [call |-> "new", n |-> 0, before |-> bufs, calls |-> <<>>]

\* bufs.set_buf_init(n) of [T; N] and Vec<T>, within the total capacity.
VecSetBufInit(n) ==
    /\ n <= SumCap(bufs)
    /\ LET r == default_set_buf_init(bufs, n) IN
       /\ bufs' = [i \in 1 .. Len(r) |-> r[i].buf]
       /\ ret' = [call |-> "set_buf_init", n |-> n, before |-> bufs,
                  calls |-> [i \in 1 .. Len(r) |-> r[i].len]]
    /\ UNCHANGED <<buf, writer, stream>>
    /\ UNCHANGED drvvars

VectoredNext == \E n \in 0 .. MaxBufs * MaxSubCap : VecSetBufInit(n)

VectoredSpec == VectoredInit /\ [][VectoredNext]_vars

(* ------------------------------- slice -------------------------------- *)

\* Slice::new(buffer, begin, end): the view keeps the buffer and the range.
Slice_new(buffer, begin, end) ==
    [buffer |-> buffer, begin |-> begin, end |-> end]
NoSlice == Slice_new(NoBuf, 0, 0)

\* a - b in usize: there is no length below zero.
checked_sub(a, b) == IF b <= a THEN Some(a - b) ELSE None

\* The view's buf_len: min(original length, end) - begin.
Slice_buf_len(s) ==
    checked_sub(Min(buf_len(s.buffer), s.end), s.begin)
\* The view's buf_capacity: end - begin.
Slice_buf_capacity(s) == checked_sub(s.end, s.begin)
\* The view's bytes: the buffer's, from offset begin up to its length.
Slice_as_slice(s) ==
    SubSeq(s.buffer.mem, s.begin + 1, Min(buf_len(s.buffer), s.end))

\* IoBuf::slice(start..end), either bound possibly omitted: the three
\* assertions, then Slice::new(self, begin, end).
slice(b, start, end) ==
    LET begin == IF start.some THEN start.d ELSE 0
        e == IF end.some THEN end.d ELSE buf_capacity(b)
    IN IF \/ ~(begin <= buf_capacity(b))
          \/ ~(e <= buf_capacity(b))
          \/ ~(begin <= buf_len(b))
       THEN [panic |-> TRUE, view |-> NoSlice]
       ELSE [panic |-> FALSE, view |-> Slice_new(b, begin, e)]

\* b"hello world"
HelloWorld ==
    Buf("static", <<"h", "e", "l", "l", "o", " ", "w", "o", "r", "l", "d">>,
        Len(<<"h", "e", "l", "l", "o", " ", "w", "o", "r", "l", "d">>))

\* Range bounds up to one past the largest capacity, or omitted.
RangeBounds ==
    {None} \cup {Some(n) : n \in 0 .. Max(MaxCap, buf_capacity(HelloWorld)) + 1}

SliceInit ==
    /\ DriverIdle
    /\ buf \in {HelloWorld}
               \cup {b \in SetInitBufs : b.len <= buf_capacity(b)}
    /\ bufs = <<>>
    /\ writer = <<>>
    /\ stream = NoStream
    /\ ret = [call |-> "new", start |-> None, end |-> None, panic |-> FALSE,
              view |-> NoSlice]

\* buf.slice(start..end); the bounds tried go one past the capacity.
Slice(start, end) ==
    /\ start.some => start.d <= buf_capacity(buf) + 1
    /\ end.some => end.d <= buf_capacity(buf) + 1
    /\ LET r == slice(buf, start, end) IN
       ret' = [call |-> "slice", start |-> start, end |-> end,
               panic |-> r.panic, view |-> r.view]
    /\ UNCHANGED <<buf, bufs, writer, stream>>
    /\ UNCHANGED drvvars

SliceNext == \E start \in RangeBounds, end \in RangeBounds : Slice(start, end)

SliceSpec == SliceInit /\ [][SliceNext]_vars

(* -------------------------------- Null -------------------------------- *)

\* BufResult(result, buffer)
BufResult(result, buffer) == [result |-> result, buf |-> buffer]

\* Null's read
Null_read(b) == BufResult(Ok(0), b)

\* A writer that takes all it is given.
Null_write_all(b) == BufResult(Ok(buf_len(b)), b)

\* Null's write
Null_write(b) == BufResult(Ok(0), b)

\* Null's write_vectored
Null_write_vectored(bs) == BufResult(Ok(0), bs)

\* Null's flush and shutdown
Null_flush == Ok(Unit)
Null_shutdown == Ok(Unit)

NullInit ==
    /\ DriverIdle
    /\ buf \in {b \in SetInitBufs : b.len <= buf_capacity(b)}
    /\ bufs \in SubBufSeqs
    /\ writer = <<>>
    /\ stream = NoStream
    /\ ret = [call |-> "null", result |-> Ok(Unit), buf |-> buf,
              bufs |-> bufs]

\* null.read(buf): the buffer goes in and comes back.
NullRead ==
    /\ LET r == Null_read(buf) IN
       /\ buf' = r.buf
       /\ ret' = [call |-> "read", result |-> r.result, buf |-> buf,
                  bufs |-> bufs]
    /\ UNCHANGED <<bufs, writer, stream>>
    /\ UNCHANGED drvvars

\* null.write(buf)
NullWrite ==
    /\ LET r == Null_write(buf) IN
       /\ buf' = r.buf
       /\ ret' = [call |-> "write", result |-> r.result, buf |-> buf,
                  bufs |-> bufs]
    /\ UNCHANGED <<bufs, writer, stream>>
    /\ UNCHANGED drvvars

\* null.write_vectored(bufs)
NullWriteVectored ==
    /\ LET r == Null_write_vectored(bufs) IN
       /\ bufs' = r.buf
       /\ ret' = [call |-> "write_vectored", result |-> r.result,
                  buf |-> buf, bufs |-> bufs]
    /\ UNCHANGED <<buf, writer, stream>>
    /\ UNCHANGED drvvars

\* null.flush()
NullFlush ==
    /\ ret' = [call |-> "flush", result |-> Null_flush, buf |-> buf,
               bufs |-> bufs]
    /\ UNCHANGED <<buf, bufs, writer, stream>>
    /\ UNCHANGED drvvars

\* null.shutdown()
NullShutdown ==
    /\ ret' = [call |-> "shutdown", result |-> Null_shutdown, buf |-> buf,
               bufs |-> bufs]
    /\ UNCHANGED <<buf, bufs, writer, stream>>
    /\ UNCHANGED drvvars

NullNext ==
    \/ NullRead
    \/ NullWrite
    \/ NullWriteVectored
    \/ NullFlush
    \/ NullShutdown

NullSpec == NullInit /\ [][NullNext]_vars

(* ---------------------------- stream pair ----------------------------- *)

\* The most bytes the client writes in all.
MaxSent == 6

UnexpectedEof == "UnexpectedEof"

\* What the client writes: "hello" of the tests, and a single byte.
Hello == <<"h", "e", "l", "l", "o">>
Payloads == {Hello, <<"w">>}

\* Vec::with_capacity(n)
Vec_with_capacity(n) == Buf("vec", [i \in 1 .. n |-> "_"], 0)

\* The bytes `bytes` stored at the start of the buffer's memory, and the
\* buffer told so.
Filled(b, bytes) ==
    set_buf_init([b EXCEPT !.mem = bytes \o SubSeq(b.mem, Len(bytes) + 1,
                                                   Len(b.mem))],
                 Len(bytes))

\* write_all putting its bytes ahead of the ones in transit.
Stream_write_all_front(st, bytes) ==
    [st |-> [st EXCEPT !.data = bytes \o st.data], result |-> Ok(Len(bytes))]

\* write_all by one end: the bytes join the ones in transit, all of them.
Stream_write_all(st, bytes) ==
    [st |-> [st EXCEPT !.data = st.data \o bytes], result |-> Ok(Len(bytes))]

\* The writing end dropped or shut down.
Stream_close(st) == [st EXCEPT !.closed = TRUE]

\* read by the other end into b taking k bytes: none when nothing is in
\* transit and the writing end is gone, or when b has no room.
Stream_read(st, b, k) ==
    [st |-> [st EXCEPT !.data = SubSeq(st.data, k + 1, Len(st.data))],
     result |-> Ok(k),
     buf |-> Filled(b, SubSeq(st.data, 1, k))]

\* read_exact by the other end: b filled to its capacity, or the end of
\* the stream met before that.
Stream_read_exact(st, b) ==
    IF Len(st.data) >= buf_capacity(b)
    THEN [st |-> [st EXCEPT !.data = SubSeq(st.data, buf_capacity(b) + 1,
                                            Len(st.data))],
          result |-> Ok(buf_capacity(b)),
          buf |-> Filled(b, SubSeq(st.data, 1, buf_capacity(b)))]
    ELSE [st |-> [st EXCEPT !.data = <<>>],
          result |-> Err(UnexpectedEof),
          buf |-> Filled(b, st.data)]

\* UnixStream::connect and listener.accept: a connected pair.
StreamInit ==
    /\ DriverIdle
    /\ buf = NoBuf
    /\ bufs = <<>>
    /\ writer = <<>>
    /\ stream = NoStream
    /\ ret = [call |-> "connect", result |-> Ok(Unit), sent |-> <<>>,
              pos |-> 0, closed |-> FALSE, n |-> 0]

\* client.write_all(bytes)
ClientWriteAll(bytes) ==
    /\ ~stream.closed
    /\ Len(ret.sent) + Len(bytes) <= MaxSent
    /\ LET r == Stream_write_all(stream, bytes) IN
       /\ stream' = r.st
       /\ ret' = [call |-> "write_all", result |-> r.result,
                  sent |-> ret.sent \o bytes,
                  pos |-> Len(ret.sent) - Len(stream.data),
                  closed |-> stream.closed, n |-> Len(bytes)]
    /\ UNCHANGED <<buf, bufs, writer>>
    /\ UNCHANGED drvvars

\* drop(client)
ClientDrop ==
    /\ ~stream.closed
    /\ stream' = Stream_close(stream)
    /\ ret' = [call |-> "drop", result |-> Ok(Unit), sent |-> ret.sent,
               pos |-> Len(ret.sent) - Len(stream.data),
               closed |-> stream.closed, n |-> 0]
    /\ UNCHANGED <<buf, bufs, writer>>
    /\ UNCHANGED drvvars

\* client.shutdown()
ClientShutdown ==
    /\ ~stream.closed
    /\ stream' = Stream_close(stream)
    /\ ret' = [call |-> "shutdown", result |-> Ok(Unit), sent |-> ret.sent,
               pos |-> Len(ret.sent) - Len(stream.data),
               closed |-> stream.closed, n |-> 0]
    /\ UNCHANGED <<buf, bufs, writer>>
    /\ UNCHANGED drvvars

\* server.read(b) returning: with k bytes of those in transit, or with
\* none at the end of the stream or for a buffer without room. (With
\* nothing in transit and the writing end open, it waits.)
ServerRead(b, k) ==
    /\ k <= buf_capacity(b)
    /\ k <= Len(stream.data)
    /\ k = 0 => \/ buf_capacity(b) = 0
                \/ stream.data = <<>> /\ stream.closed
    /\ LET r == Stream_read(stream, b, k) IN
       /\ stream' = r.st
       /\ buf' = r.buf
       /\ ret' = [call |-> "read", result |-> r.result, sent |-> ret.sent,
                  pos |-> Len(ret.sent) - Len(stream.data),
                  closed |-> stream.closed, n |-> buf_capacity(b)]
    /\ UNCHANGED <<bufs, writer>>
    /\ UNCHANGED drvvars

\* server.read_exact(b) returning: once the bytes are there, or once the
\* writing end is gone.
ServerReadExact(b) ==
    /\ Len(stream.data) >= buf_capacity(b) \/ stream.closed
    /\ LET r == Stream_read_exact(stream, b) IN
       /\ stream' = r.st
       /\ buf' = r.buf
       /\ ret' = [call |-> "read_exact", result |-> r.result,
                  sent |-> ret.sent,
                  pos |-> Len(ret.sent) - Len(stream.data),
                  closed |-> stream.closed, n |-> buf_capacity(b)]
    /\ UNCHANGED <<bufs, writer>>
    /\ UNCHANGED drvvars

\* The buffers the server reads into: a new Vec::with_capacity(n), or the
\* one an earlier read returned.
ServerBufs ==
    {Vec_with_capacity(n) : n \in 0 .. Len(Hello)}
    \cup (IF buf.kind = "vec" THEN {buf} ELSE {})

StreamNext ==
    \/ \E bytes \in Payloads : ClientWriteAll(bytes)
    \/ ClientDrop
    \/ ClientShutdown
    \/ \E b \in ServerBufs, k \in 0 .. Len(Hello) : ServerRead(b, k)
    \/ \E b \in ServerBufs : ServerReadExact(b)

StreamSpec == StreamInit /\ [][StreamNext]_vars

(* ----------------------- AsyncWrite for Vec<u8> ----------------------- *)

\* The most bytes the vector written into grows to.
MaxVec == 8

\* The initialized bytes of the sub-buffers, one after the other.
RECURSIVE Concat(_)
Concat(bs) == IF bs = <<>> THEN <<>> ELSE as_slice(Head(bs)) \o Concat(Tail(bs))

\* Vec<u8>::write: extend_from_slice(buf.as_slice()), Ok(buf.buf_len()).
Vec_write(self, b) ==
    [panic |-> FALSE, writer |-> self \o as_slice(b),
     res |-> BufResult(Ok(buf_len(b)), b)]

\* Vec<u8>::write_vectored: len is the sum of the sub-buffers' lengths;
\* reserve(len - self.len()), a usize subtraction that has no result when
\* the vector is longer than len (the subtraction panics where overflow is
\* checked; where it wraps, reserve panics with a capacity overflow);
\* then every sub-buffer is appended and Ok(len) returned.
Vec_write_vectored(self, bs) ==
    LET len == SumLen(bs) IN
    IF ~checked_sub(len, Len(self)).some
    THEN [panic |-> TRUE, writer |-> self, res |-> BufResult(Ok(0), bs)]
    ELSE [panic |-> FALSE, writer |-> self \o Concat(bs),
          res |-> BufResult(Ok(len), bs)]

\* A vector holding any number of bytes up to MaxCap, a buffer and a
\* vectored buffer to write from.
VecWriteInit ==
    /\ DriverIdle
    /\ writer \in {[i \in 1 .. n |-> 0] : n \in 0 .. MaxCap}
    /\ buf \in {b \in SubBufs : b.len <= buf_capacity(b)}
    /\ bufs \in SubBufSeqs
    /\ stream = NoStream
    /\ ret = [call |-> "new", panic |-> FALSE, result |-> Ok(Unit),
              before |-> writer]

\* writer.write(buf)
VecWrite ==
    /\ ~ret.panic
    /\ Len(writer) + buf_len(buf) <= MaxVec
    /\ LET r == Vec_write(writer, buf) IN
       /\ writer' = r.writer
       /\ buf' = r.res.buf
       /\ ret' = [call |-> "write", panic |-> r.panic,
                  result |-> r.res.result, before |-> writer]
    /\ UNCHANGED <<bufs, stream>>
    /\ UNCHANGED drvvars

\* writer.write_vectored(bufs)
VecWriteVectored ==
    /\ ~ret.panic
    /\ Len(writer) + SumLen(bufs) <= MaxVec
    /\ LET r == Vec_write_vectored(writer, bufs) IN
       /\ writer' = r.writer
       /\ bufs' = r.res.buf
       /\ ret' = [call |-> "write_vectored", panic |-> r.panic,
                  result |-> r.res.result, before |-> writer]
    /\ UNCHANGED <<buf, stream>>
    /\ UNCHANGED drvvars

VecWriteNext ==
    \/ VecWrite
    \/ VecWriteVectored

VecWriteSpec == VecWriteInit /\ [][VecWriteNext]_vars

(* ------------------------------- claims ------------------------------- *)

Elems(q) == {q[i] : i \in 1 .. Len(q)}
InSink(id) == \E i \in 1 .. Len(sink) : sink[i].user_data = id
KindOf(id) == Slab_get(ops, id).kind
\* The identifier is somewhere between push and the completion ring.
InPipeline(id) ==
    \/ id \in Elems(squeue) \cup Elems(d_squeue)
    \/ \E i \in 1 .. Len(sq) : sq[i].kind # "cancel" /\ sq[i].user_data = id
    \/ \E f \in inflight : f.user_data = id
    \/ CountOf(cq, id) > 0
\* A step of pop consuming the entry at the head of the caller's entries.
PopStep == sink # <<>> /\ sink' = Tail(sink) /\ out'.call = "pop"

\* C1: every pushed opcode that the kernel completes gets exactly one Entry
\* bearing its identifier: while it is registered and no Entry for it is in
\* the sink, one eventually is (poll keeps being called), and once one is,
\* none other is in the sink or on its way.
C1_ExactlyOneEntry ==
    /\ \A id \in Ids :
         (id \in Registered /\ KindOf(id) = "io" /\ ~InSink(id)) ~> InSink(id)
    /\ [](\A id \in Ids :
            /\ CountOf(sink, id) <= 1
            /\ InSink(id) => id \in Registered /\ ~InPipeline(id))

\* An Entry of an operation that completed on its own is in the sink.
C1_Witness ==
    \E i \in 1 .. Len(sink) :
        /\ sink[i].result = Ok(3)
        /\ sink[i].user_data \in Registered
        /\ KindOf(sink[i].user_data) = "io"

\* C2: every Entry in the sink bears an identifier that was pushed to the
\* kernel ring as a user submission, and no identifier has had more entries
\* appended than it has had user submissions.
C2_EntriesWereSubmitted ==
    /\ \A i \in 1 .. Len(sink) :
         sink[i].user_data \in HistIds /\ hist.sub[sink[i].user_data] >= 1
    /\ \A id \in HistIds : hist.ent[id] <= hist.sub[id]

\* An identifier submitted twice (it was recycled) has had its second Entry.
C2_Witness == hist.sub[0] = 2 /\ hist.ent[0] = 2 /\ InSink(0)

\* C3: a step of pop for an Entry with identifier id leaves id out of the
\* registry, yields an owned operation whose user_data is id, and makes id
\* the identifier the next push returns.
C3_PopReleasesId ==
    [][PopStep =>
         LET id == Head(sink).user_data IN
         /\ ~Slab_contains(ops', id)
         /\ out'.user_data = id
         /\ out'.op = Slab_get(ops, id)
         /\ Slab_vacant_key(ops') = id]_vars

\* A push has returned an identifier that an earlier push returned and pop
\* released.
C3_Witness ==
    out.call = "push" /\ out.user_data = 0 /\ out.op.addr = 2

\* C4: whatever step is taken, cancel and the steps of poll among them, a
\* registered identifier stays registered with the same opcode, unless the
\* step is pop consuming an Entry for it.
C4_CancelKeepsOpcode ==
    [][\A id \in Registered :
         \/ Slab_contains(ops', id) /\ Slab_get(ops', id) = Slab_get(ops, id)
         \/ PopStep /\ Head(sink).user_data = id]_vars

\* cancel(id) was called for a pushed timer, poll has returned, the timer's
\* Entry (timed out) is in the sink, and id is still registered.
C4_Witness ==
    /\ pc = "idle"
    /\ out.call = "poll"
    /\ \E i \in 1 .. Len(sink) :
         /\ hist.mark[sink[i].user_data] = "post"
         /\ sink[i].result = Err(ETIMEDOUT)
         /\ sink[i].user_data \in Registered
         /\ KindOf(sink[i].user_data) = "timer"

\* What a step of flush_submissions appended to the kernel ring.
Flushed == SubSeq(sq', Len(sq) + 1, Len(sq'))

\* C5: a flush that pushes an async-cancel to the kernel ring has no user
\* submission left pending, and has pushed its user submissions before its
\* cancels.
C5_CancelsAfterSubmissions ==
    [][pc = "flush" /\ (\E i \in 1 .. Len(Flushed) : Flushed[i].kind = "cancel")
         => /\ d_squeue' = <<>>
            /\ squeue' = <<>>
            /\ \A i, j \in 1 .. Len(Flushed) :
                 Flushed[i].kind = "cancel" /\ Flushed[j].kind # "cancel"
                     => j < i]_vars

\* A flush has pushed a user submission and then a cancel.
C5_Witness ==
    /\ pc = "submit"
    /\ Len(sq) = 2
    /\ sq[1].kind # "cancel"
    /\ sq[2].kind = "cancel"

\* The identifiers a step of flush_submissions pushed as user submissions,
\* and those it pushed as the targets of async-cancels, in ring order.
FlushedOps ==
    LET user == SelectSeq(Flushed, LAMBDA e : e.kind # "cancel")
    IN [i \in 1 .. Len(user) |-> user[i].user_data]
FlushedCancels ==
    LET canc == SelectSeq(Flushed, LAMBDA e : e.kind = "cancel")
    IN [i \in 1 .. Len(canc) |-> canc[i].target]
IsPrefix(a, b) == Len(a) <= Len(b) /\ SubSeq(b, 1, Len(a)) = a
\* poll has just been called with more pending than the ring holds.
Overflow ==
    pc = "flush" /\ Len(d_squeue) + Len(cancel_queue) > RingEntries

CancelledBeforePush(id) ==
    /\ hist.mark[id] = "pre"
    /\ id \in Elems(squeue)
    /\ id \in Elems(cancel_queue)

CancelledAfterPush(id) ==
    /\ hist.mark[id] = "post"
    /\ id \in Registered
    /\ KindOf(id) = "timer"
    /\ id \in Elems(squeue)
    /\ id \in Elems(cancel_queue)

C9_TimedOutAppendsNothing ==
    out.call = "poll" /\ out.result = Err(ETIMEDOUT) => out.appended = 0

\* A poll with a zero timeout has returned that found nothing queued, nothing
\* in the rings and nothing completed when it was called.
QuietZeroPoll ==
    /\ out.call = "poll"
    /\ out.quiet
    /\ out.timeout = Some(0)

\* C10 (as stated): poll with a zero timeout, nothing queued and no
\* completion there for it to append returns Ok(()).
C10_ZeroTimeoutOk ==
    QuietZeroPoll /\ out.appended = 0 => out.result = Ok(Unit)

\* C10 (amended): poll with a zero timeout and nothing queued returns the
\* timed-out error when no completion is there for it to append, and
\* returns Ok(()) only with the entries of operations that completed while
\* it ran.
C10_ZeroTimeoutTimedOut ==
    QuietZeroPoll => IF out.appended = 0
                     THEN out.result = Err(ETIMEDOUT)
                     ELSE out.result = Ok(Unit)

\* Such a poll has returned having appended nothing, with an operation
\* still in flight.
C10_Witness ==
    QuietZeroPoll /\ pc = "idle" /\ out.appended = 0 /\ inflight # {}

\* C11: a poll called with timeout None never returns Ok(()) from a call
\* that appended no Entry to the caller's sink.
C11_NoneBlocksUntilEntry ==
    out.call = "poll" /\ out.timeout = None /\ out.result = Ok(Unit)
        => out.appended >= 1

\* A step of Driver::poll in which poll_entries ran: submit_auto gave Ok,
\* and the loop goes on or poll returns Ok(()).
DrainStep ==
    /\ pc \in {"submit", "wait"}
    /\ pc' = "flush" \/ (pc' = "idle" /\ out'.result.ok)
\* The completions of ring that are not tagged CANCEL, each as an Entry.
Forwarded(ring) ==
    LET keep == SelectSeq(ring, LAMBDA c : c.user_data # CANCEL)
    IN [i \in 1 .. Len(keep) |-> create_entry(keep[i])]

\* C12: no Entry in the sink is tagged CANCEL; a step that reads the
\* completion ring empties it and appends to the sink, in order and once
\* each, the entries of its completions that are not tagged CANCEL; no
\* other step but pop changes the sink or takes a completion off the ring.
C12_DrainForwardsNonCancel ==
    /\ [](\A i \in 1 .. Len(sink) : sink[i].user_data # CANCEL)
    /\ [][DrainStep => cq' = <<>> /\ sink' = sink \o Forwarded(cq)]_vars
    /\ [][~DrainStep => /\ IsPrefix(cq, cq')
                        /\ sink' = sink \/ PopStep]_vars

\* An iteration of poll has just read a cancelled timer's completion and
\* the async-cancel's own, and appended the one Entry.
C12_Witness ==
    /\ pc = "flush"
    /\ appended = 1
    /\ cq = <<>>
    /\ hist.ent[0] = 1
    /\ \E i \in 1 .. Len(sink) :
         /\ sink[i].user_data = 0
         /\ KindOf(0) = "timer"
         /\ sink[i].result = Err(ETIMEDOUT)

\* The Entry the translation rule gives for a kernel completion.
Translated(cqe) ==
    [user_data |-> cqe.user_data,
     result |-> CASE cqe.res >= 0 -> Ok(cqe.res)
                  [] cqe.res = 0 - ECANCELED -> Err(ETIMEDOUT)
                  [] OTHER -> Err(0 - cqe.res)]

\* C13: the Entry made of a kernel completion has its user_data, and for
\* its value r the result Ok(r) if r >= 0, Err(timed-out) if r is
\* -ECANCELED, and Err(-r) for any other negative r.
C13_ResultTranslation ==
    [][cq # <<>> => sink' = [i \in 1 .. Len(cq) |-> Translated(cq[i])]]_vars

\* A completion of value -ECANCELED has been made a timed-out Entry.
C13_Witness ==
    sink = <<[user_data |-> 1, result |-> Err(ETIMEDOUT)]>> /\ cq = <<>>

\* C14: a kernel submit error reaches poll's caller as the timed-out error
\* for ETIME and unchanged for any error but EBUSY and EAGAIN; EBUSY and
\* EAGAIN are taken for success and the work is submitted again before poll
\* returns, so a poll that returned Ok(()) has left nothing it pushed to
\* the kernel ring unsubmitted.
C14_SubmitErrorsTranslated ==
    out.call = "poll"
        => IF out.result.ok
           THEN pc = "idle" => sq = <<>>
           ELSE out.result \in {Err(ETIMEDOUT), Err(EINTR)}

\* The errors Forwarded(ring) carries.
ErrorsOf(ring) == {e \in Elems(Forwarded(ring)) : ~e.result.ok}

\* C15: a step of poll that reads the completion of an operation that
\* failed appends it as an Entry bearing that error, along with the other
\* completions' entries, changes nothing else of the driver, and goes on
\* as it would without the error: to the next iteration, or to return
\* Ok(()) when this iteration was the last; and poll never returns an
\* operation's error.
C15_OperationErrorsStayInEntries ==
    /\ [][DrainStep /\ ErrorsOf(cq) # {}
            => /\ sink' = sink \o Forwarded(cq)
               /\ IF ended THEN pc' = "idle" /\ out'.result = Ok(Unit)
                           ELSE pc' = "flush"
               /\ UNCHANGED <<ops, squeue, d_squeue, cancel_queue, sq,
                              inflight>>]_vars
    /\ [](out.call = "poll" /\ ~out.result.ok
            => out.result.val \notin {0 - r : r \in IoResults})

\* poll has returned Ok(()) from a call that appended the Entry of an
\* operation that failed with EIO and the Entry of one that succeeded.
C15_Witness ==
    /\ out.call = "poll"
    /\ out.result = Ok(Unit)
    /\ out.appended = 2
    /\ \E i, j \in 1 .. Len(sink) :
         sink[i].result = Err(5) /\ sink[j].result = Ok(3)

\* The results an operation that completes on its own can have.
OwnResults == {create_entry(Cqe(0, r)).result : r \in IoResults}

\* C16: cancel(id) for an identifier that is not in flight changes no
\* other operation's result: an operation for which cancel was never
\* called, neither before nor after the push that registered it, gets an
\* Entry only by completing on its own, with its own result.
C16_CancelNotInFlightHarmless ==
    \A i \in 1 .. Len(sink) :
        hist.mark[sink[i].user_data] = "no"
            => /\ KindOf(sink[i].user_data) = "io"
               /\ sink[i].result \in OwnResults

\* A step of PollDriver::push.
PushStep == pushes' = pushes + 1 /\ out'.call = "push"

\* C17: a step of push returns an identifier that was not registered,
\* registers the opcode under it and leaves every other slot of the
\* registry as it was, appends that identifier and nothing else to the tail
\* of the submission queue, and does not return CANCEL.
C17_PushRegistersFreshId ==
    [][PushStep =>
         LET id == out'.user_data IN
         /\ id \notin Registered
         /\ id # CANCEL
         /\ Slab_contains(ops', id)
         /\ Slab_get(ops', id) = out'.op
         /\ \A other \in Registered :
              /\ Slab_contains(ops', other)
              /\ Slab_get(ops', other) = Slab_get(ops, other)
         /\ squeue' = Append(squeue, id)]_vars

\* push has returned 1 while 0 is registered and still queued.
C17_Witness ==
    /\ out.call = "push"
    /\ out.user_data = 1
    /\ Registered = {0, 1}
    /\ squeue = <<0, 1>>

\* The submission entries of operations that the ring or the kernel holds.
HeldEntries == {e \in Elems(sq) \cup inflight : e.kind # "cancel"}

\* C18: while an identifier is registered its opcode's address is the one
\* RawOp::new gave it: no step changes it (a push that grows the registry
\* and a pop of another identifier among them), every submission entry the
\* ring or the kernel holds belongs to a registered identifier and points
\* at that address, pop yields the opcode at that address, and no two
\* registered opcodes share an address.
C18_OpcodeAddressFixed ==
    /\ [][\A id \in Registered :
            Slab_contains(ops', id)
              => Slab_get(ops', id).addr = Slab_get(ops, id).addr]_vars
    /\ [][PopStep
            => out'.op.addr = Slab_get(ops, Head(sink).user_data).addr]_vars
    /\ [](\A e \in HeldEntries :
            /\ e.user_data \in Registered
            /\ e.addr = Slab_get(ops, e.user_data).addr)
    /\ [](\A a, b \in Registered :
            Slab_get(ops, a).addr = Slab_get(ops, b).addr => a = b)

\* The kernel holds the first opcode, and the registry has grown for a
\* second one since.
C18_Witness ==
    /\ Registered = {0, 1}
    /\ \E f \in inflight : f.user_data = 0 /\ f.addr = 1
    /\ Slab_get(ops, 1).addr = 2
    /\ out.call = "push"

\* How many times a queue of identifiers holds id.
Occurrences(q, id) == Cardinality({i \in 1 .. Len(q) : q[i] = id})
\* Where the one completion of a registered identifier is: still queued, in
\* the ring, in the kernel, in the completion ring, or an Entry in the sink.
Tokens(id) ==
    Occurrences(squeue, id) + Occurrences(d_squeue, id)
      + Cardinality({i \in 1 .. Len(sq) :
                       sq[i].kind # "cancel" /\ sq[i].user_data = id})
      + Cardinality({f \in inflight : f.user_data = id})
      + CountOf(cq, id) + CountOf(sink, id)
\* cancel(id) has been called twice for a pushed timer that has no Entry
\* yet, and neither cancel has been flushed.
CancelledTwice(id) ==
    /\ id \in Registered
    /\ KindOf(id) = "timer"
    /\ InPipeline(id)
    /\ Occurrences(cancel_queue, id) = 2

PushOrder(id) == Slab_get(ops, id).addr
\* The identifiers pushed and not yet in the kernel ring, oldest first.
Pending == d_squeue \o squeue
\* The user submissions in the kernel ring, in ring order.
RingOps == SelectSeq(sq, LAMBDA e : e.kind # "cancel")

\* C20: user submissions reach the kernel ring in the order of their
\* pushes: the identifiers still queued are in push order, those in the
\* ring are in push order and older than every one queued, those the
\* kernel already took are older than every one in the ring, and a flush
\* takes the head of the queue, whichever iteration or poll call it
\* belongs to.
C20_SubmissionsInPushOrder ==
    /\ [](\A i, j \in 1 .. Len(Pending) :
            i < j => PushOrder(Pending[i]) < PushOrder(Pending[j]))
    /\ [](\A i, j \in 1 .. Len(RingOps) :
            i < j => RingOps[i].addr < RingOps[j].addr)
    /\ [](\A i \in 1 .. Len(RingOps), j \in 1 .. Len(Pending) :
            RingOps[i].addr < PushOrder(Pending[j]))
    /\ [](\A f \in inflight, i \in 1 .. Len(RingOps) :
            f.addr < RingOps[i].addr)
    /\ [][pc = "flush" => IsPrefix(FlushedOps, d_squeue)]_vars

\* Two operations were pushed as 0 then 1 and submitted by one poll call in
\* that order; the Entry of 1 arrived before the Entry of 0.
C20_Witness ==
    /\ Len(sink) = 2
    /\ sink[1].user_data = 1
    /\ sink[2].user_data = 0
    /\ PushOrder(0) = 1
    /\ PushOrder(1) = 2
    /\ hist.sub[0] = 1
    /\ hist.sub[1] = 1

\* C21: set_buf_init(n) with n within the capacity is monotone: when n is
\* greater than the initialized length the length becomes exactly n,
\* otherwise the buffer is unchanged; so after any sequence of calls the
\* length is the maximum of the initial length and every n passed, and it
\* never decreases. (A slice or an array is all initialized: no n within
\* its capacity is greater than its length.)
C21_SetBufInitMonotone ==
    ret.call = "set_buf_init" =>
        /\ IF ret.n > buf_len(ret.before)
           THEN /\ buf_len(buf) = ret.n
                /\ buf_capacity(buf) = buf_capacity(ret.before)
                /\ buf.mem = ret.before.mem
           ELSE buf = ret.before
        /\ buf_len(buf) = ret.max
        /\ buf_len(buf) >= buf_len(ret.before)

\* A Vec<u8> that was grown by one call and left alone by a later call with
\* a smaller n.
C21_Witness ==
    /\ ret.call = "set_buf_init"
    /\ buf.kind = "vec"
    /\ ret.init < ret.max
    /\ ret.n < ret.max
    /\ buf_len(buf) = ret.max

\* The share of n that the greedy distribution gives sub-buffer i of q.
Greedy(q, i, n) ==
    Min(buf_capacity(q[i]), Max(0, n - SumCap(SubSeq(q, 1, i - 1))))

\* C22: vectored set_buf_init(n), n at most the total capacity, distributes
\* n greedily front to back: set_buf_init(capacity_i) on each sub-buffer
\* while the remainder is at least its capacity, then set_buf_init of the
\* remainder on the next; for sub-buffers that start empty the resulting
\* lengths are min(capacity_i, max(0, n - capacities before i)) and sum to n.
C22_GreedyDistribution ==
    ret.call = "set_buf_init" =>
        /\ Len(bufs) = Len(ret.before)
        /\ \A i \in 1 .. Len(bufs) :
              /\ ret.calls[i] = Greedy(ret.before, i, ret.n)
              /\ buf_len(ret.before[i]) = 0 =>
                     buf_len(bufs[i]) = Greedy(ret.before, i, ret.n)
        /\ (\A i \in 1 .. Len(bufs) : buf_len(ret.before[i]) = 0) =>
               SumLen(bufs) = ret.n

\* Three empty sub-buffers: the first saturated, the second given a
\* remainder smaller than its capacity, the third given nothing.
C22_Witness ==
    /\ ret.call = "set_buf_init"
    /\ Len(bufs) = 3
    /\ \A i \in 1 .. 3 : buf_len(ret.before[i]) = 0
    /\ buf_capacity(bufs[1]) > 0
    /\ buf_len(bufs[1]) = buf_capacity(bufs[1])
    /\ 0 < buf_len(bufs[2])
    /\ buf_len(bufs[2]) < buf_capacity(bufs[2])
    /\ buf_capacity(bufs[3]) > 0
    /\ buf_len(bufs[3]) = 0

\* The begin and end that a range stands for on the buffer at hand.
BeginOf(r) == IF r.start.some THEN r.start.d ELSE 0
EndOf(r) == IF r.end.some THEN r.end.d ELSE buf_capacity(buf)

\* C23: slice(begin..end) on a buffer of initialized length L and capacity
\* C panics exactly when begin > C, end > C or begin > L (an omitted end is
\* C, an omitted begin is 0); otherwise the view has length
\* min(L, end) - begin, capacity end - begin, and the original bytes from
\* offset begin.
C23_SliceView ==
    ret.call = "slice" =>
        /\ ret.panic <=> \/ BeginOf(ret) > buf_capacity(buf)
                         \/ EndOf(ret) > buf_capacity(buf)
                         \/ BeginOf(ret) > buf_len(buf)
        /\ ~ret.panic =>
              /\ Slice_buf_len(ret.view).some
              /\ Slice_buf_len(ret.view).d
                     = Min(buf_len(buf), EndOf(ret)) - BeginOf(ret)
              /\ Slice_buf_capacity(ret.view).some
              /\ Slice_buf_capacity(ret.view).d = EndOf(ret) - BeginOf(ret)
              /\ Len(Slice_as_slice(ret.view)) = Slice_buf_len(ret.view).d
              /\ \A i \in 1 .. Len(Slice_as_slice(ret.view)) :
                    Slice_as_slice(ret.view)[i] = buf.mem[BeginOf(ret) + i]

\* C24: every read, write and write_vectored of Null returns (Ok(0), buf)
\* with the buffer as it was handed in (contents, initialized length and
\* capacity), whatever the buffer and whatever was called before; flush and
\* shutdown return Ok.
C24_NullLeavesBuffers ==
    /\ ret.call \in {"read", "write", "write_vectored"} =>
           /\ ret.result = Ok(0)
           /\ buf = ret.buf
           /\ bufs = ret.bufs
    /\ ret.call \in {"flush", "shutdown"} =>
           /\ ret.result = Ok(Unit)
           /\ buf = ret.buf
           /\ bufs = ret.bufs

\* A write of a Vec<u8> that holds bytes and has room left.
C24_Witness ==
    /\ ret.call = "write"
    /\ ret.result = Ok(0)
    /\ buf.kind = "vec"
    /\ 0 < buf_len(buf)
    /\ buf_len(buf) < buf_capacity(buf)

\* C25: on a connected stream pair the bytes one end writes with write_all
\* reach the other end in order and in full (read_exact into an n-capacity
\* buffer returns n and those bytes), and once the writing end is dropped
\* or shut down and all it wrote has been read, every later read on the
\* other end returns 0 bytes.
C25_StreamDelivery ==
    /\ ret.sent = SubSeq(ret.sent, 1, Len(ret.sent) - Len(stream.data))
                  \o stream.data
    /\ ret.call = "write_all" =>
           /\ ret.result = Ok(ret.n)
           /\ SubSeq(ret.sent, Len(ret.sent) - ret.n + 1, Len(ret.sent))
                  = SubSeq(stream.data, Len(stream.data) - ret.n + 1,
                           Len(stream.data))
    /\ (ret.call = "read_exact" /\ ret.result.ok) =>
           /\ ret.result = Ok(buf_capacity(buf))
           /\ SubSeq(buf.mem, 1, buf_capacity(buf))
                  = SubSeq(ret.sent, ret.pos + 1, ret.pos + buf_capacity(buf))
    /\ (ret.call = "read_exact" /\ ~ret.result.ok) =>
           /\ ret.closed
           /\ Len(ret.sent) - ret.pos < buf_capacity(buf)
    /\ ret.call = "read" =>
           SubSeq(buf.mem, 1, ret.result.val)
               = SubSeq(ret.sent, ret.pos + 1, ret.pos + ret.result.val)
    /\ (ret.call = "read" /\ ret.closed /\ ret.pos = Len(ret.sent)) =>
           ret.result = Ok(0)

\* The test accept_read_write: "hello" written, the client dropped, the
\* five bytes read, and the read after that returning 0.
C25_Witness ==
    /\ ret.call = "read"
    /\ ret.result = Ok(0)
    /\ ret.sent = Hello
    /\ ret.closed
    /\ ret.pos = Len(Hello)
    /\ as_slice(buf) = Hello

\* C26: every call of flush_submissions returns true if and only if, when
\* it returns, both the staging queue and the cancel queue are empty, the
\* call whose last identifier filled the last free slot of the ring
\* included.
C26_FullyDrainedIffEmpty ==
    pc = "submit" => (ended <=> d_squeue = <<>> /\ cancel_queue = <<>>)

\* submit_auto is called, or has been called, with wait = true.
Waiting == pc \in {"submit", "wait"} /\ ended
\* poll has just returned the timed-out error.
TimedOut == out.call = "poll" /\ out.result = Err(ETIMEDOUT)

\* C27: the driver asks the kernel to wait only in a loop iteration whose
\* flush left both local queues empty, and submits without waiting
\* otherwise; so whenever poll returns the timed-out error, nothing that
\* was pending at the start of the call is left in a queue: all of it has
\* been pushed to the kernel ring.
C27_WaitOnlyWhenDrained ==
    /\ Waiting => d_squeue = <<>> /\ cancel_queue = <<>>
    /\ (pc \in {"submit", "wait"}
        /\ (d_squeue # <<>> \/ cancel_queue # <<>>)) => ~ended
    /\ TimedOut => squeue = <<>> /\ d_squeue = <<>> /\ cancel_queue = <<>>

\* A poll that found an identifier and a cancel request pending, pushed
\* both to the ring, and timed out with the operation still in the kernel.
C27_Witness ==
    /\ TimedOut
    /\ ~out.quiet
    /\ \E id \in Ids : hist.sub[id] > 0 /\ hist.mark[id] # "no"
    /\ inflight # {}
    /\ squeue = <<>> /\ d_squeue = <<>> /\ cancel_queue = <<>>

\* poll has just returned an error that submit_auto passed through.
Faulted == pc = "idle" /\ out.call = "poll" /\ out.result = Err(EINTR)
\* The completion of id is in the kernel or on the completion ring.
Completing(id) ==
    \/ \E f \in inflight : f.kind = "io" /\ f.user_data = id
    \/ \E i \in 1 .. Len(cq) : cq[i].user_data = id

\* The kernel has been handed the operation of id.
InKernel(id) ==
    \/ \E f \in inflight : f.user_data = id
    \/ \E i \in 1 .. Len(cq) : cq[i].user_data = id

\* C28: a kernel submission fault other than busy/try-again makes poll
\* return that error at once, without another iteration; the identifiers
\* not yet pushed to the ring stay queued in their order and every pushed
\* opcode stays registered; and later polls whose submit goes through
\* still submit what was left and deliver the completions of what had
\* been submitted.
C28_FaultKeepsWork ==
    /\ [][(pc = "submit" /\ pc' # "wait" /\ ~out'.result.ok) =>
              /\ pc' = "idle"
              /\ out'.call = "poll"
              /\ out'.result = Err(EINTR)
              /\ out'.appended = appended
              /\ squeue' = squeue
              /\ d_squeue' = d_squeue
              /\ cancel_queue' = cancel_queue
              /\ sq' = sq
              /\ ops' = ops
              /\ inflight' = inflight
              /\ cq' = cq
              /\ sink' = sink]_vars
    /\ \A id \in Ids :
          (Faulted /\ id \in Elems(d_squeue)) ~> InKernel(id)
    /\ \A id \in Ids :
          (Faulted /\ Completing(id)) ~> InSink(id)

\* poll returned the error with one identifier still queued behind a full
\* ring and another operation in the kernel.
C28_Witness ==
    /\ Faulted
    /\ d_squeue # <<>>
    /\ \A id \in Elems(d_squeue) : Slab_contains(ops, id)
    /\ \E id \in Ids : Completing(id)

\* C29: AsyncWrite for Vec<u8> appends and grows as needed: whatever the
\* vector holds and whatever the buffer, write appends exactly the
\* buffer's initialized bytes and returns Ok(buf_len), and write_vectored
\* appends the initialized bytes of all sub-buffers in order and returns
\* Ok(the sum of their lengths), without failing.
C29_VecWriteAppends ==
    /\ ret.call = "write" =>
           /\ ~ret.panic
           /\ writer = ret.before \o as_slice(buf)
           /\ ret.result = Ok(buf_len(buf))
    /\ ret.call = "write_vectored" =>
           /\ ~ret.panic
           /\ writer = ret.before \o Concat(bufs)
           /\ ret.result = Ok(SumLen(bufs))

\* The async-cancel at place i of the ring has the operation now
\* registered under its target ahead of it in the ring or in the kernel.
Countermands(i) ==
    /\ sq[i].kind = "cancel"
    /\ Slab_contains(ops, sq[i].target)
    /\ \/ \E j \in 1 .. i - 1 :
            sq[j].kind # "cancel" /\ sq[j].user_data = sq[i].target
       \/ \E f \in inflight : f.user_data = sq[i].target

\* C30: a cancel(id) request only countermands the operation that held id
\* when cancel was called: once that operation's Entry has been popped and
\* a later push has recycled id, no async-cancel targeting id is submitted
\* against the new operation, for which cancel was never called.
C30_CancelOnlyItsOperation ==
    \A i \in 1 .. Len(sq) :
        Countermands(i) => hist.mark[sq[i].target] # "no"

\* C31: every range that slice accepts without panicking has begin <= end,
\* so the view's capacity end - begin and length min(L, end) - begin are
\* never below zero: no usize subtraction underflows, whatever begin and
\* end.
C31_AcceptedRangeOrdered ==
    (ret.call = "slice" /\ ~ret.panic) =>
        /\ ret.view.begin = BeginOf(ret)
        /\ ret.view.end = EndOf(ret)
        /\ ret.view.begin <= ret.view.end
        /\ checked_sub(ret.view.end, ret.view.begin).some
        /\ checked_sub(Min(buf_len(buf), ret.view.end), ret.view.begin).some

\* C32: the submission ring never holds more than RingEntries entries, and
\* a step that pushes onto it starts with the ring not full and ends with
\* the ring within its capacity, so no push of a user or a cancel
\* submission finds the ring without space.
C32_RingWithinCapacity ==
    /\ [](Len(sq) <= RingEntries)
    /\ [][Len(sq') > Len(sq) =>
              /\ pc = "flush"
              /\ ~is_full(sq)
              /\ Len(sq') <= RingEntries]_vars

\* A flush has filled the ring and left both a user submission and a cancel
\* waiting in their queues.
C32_Witness ==
    /\ pc = "submit"
    /\ Len(sq) = RingEntries
    /\ d_squeue # <<>>
    /\ cancel_queue # <<>>
    /\ \E i \in 1 .. Len(sq) : sq[i].kind = "cancel"

\* C33: in every reachable state, every identifier waiting in the poll
\* driver's queue or in the backend's staging queue is registered in the
\* operation registry and occurs once in the two queues together, and no
\* registry lookup (the one of the flush, the one of pop) has failed.
C33_QueuedRegisteredOnce ==
    /\ \A id \in Elems(squeue) \cup Elems(d_squeue) :
          /\ Slab_contains(ops, id)
          /\ Occurrences(squeue, id) + Occurrences(d_squeue, id) = 1
    /\ pc # "panic"

\* An identifier that was submitted before and released by pop has been
\* handed out again by push and waits in the driver's queue, with a cancel
\* for it waiting as well.
C33_Witness ==
    \E id \in Elems(squeue) :
        /\ hist.sub[id] >= 1
        /\ id \in Elems(cancel_queue)
        /\ Slab_contains(ops, id)

====
